---- MODULE Spec2Model ----
(***************************************************************************)
(* QUBIC AEGIS: the real-time transaction risk-assessment pipeline.        *)
(*                                                                         *)
(* The model follows MultiAgentOrchestrator.analyze_transaction and the    *)
(* objects it drives: the rule-based scorer (AgentRiskAnalyst), the        *)
(* judgment provider client (AegisBrain), the adaptive sensitivity         *)
(* controller (adjust_sensitivity, "DEFCON"), the wallet ledger, the       *)
(* predictor series, the automator and the market-intel signal history.    *)
(*                                                                         *)
(* Scores are integers.  Amounts are whole units.  Time is a clock in      *)
(* seconds that advances by TickStep; datetime.utcnow()/datetime.now()     *)
(* read it.  Where the code divides floats (ratio * 2, deviation * 5) the  *)
(* model takes the integer part of the exact quotient.                     *)
(***************************************************************************)
EXTENDS Integers, Sequences, FiniteSets, TLC

VARIABLES
    cfg,                      \* outcome of MultiAgentOrchestrator.__init__
    now,                      \* the wall clock, in seconds
    nticks,                   \* clock advances so far (bounded)
    nburst,                   \* attack transactions submitted so far (bounded)
    nrich,                    \* other transactions submitted so far (bounded)
    pc,                       \* where analyze_transaction stands
    cur,                      \* the transaction being processed
    pending,                  \* locals of analyze_transaction kept across a provider call
    result,                   \* outcome of the last submission
    pre,                      \* the stores as they were when `cur` was submitted
    reply,                    \* value returned by the last call, if it was a query
    comprehensive_risk,       \* last value returned by compute_risk_score
    recent_high_risk_events,  \* deque(maxlen=100) of timestamps
    current_defcon_level,
    adaptive_alert_threshold,
    defcon_history,
    defcon_status,            \* last value returned by adjust_sensitivity
    wallet_graph,
    wallet_graph_adjacency,
    transaction_history,
    historical_data,          \* AgentPredictor.historical_data
    predictor_wallet_history, \* AgentPredictor.wallet_history
    wallet_activity,          \* AgentRiskAnalyst.wallet_activity
    token_stats,
    token_risk_history,
    token_signals,
    active_connections,       \* ConnectionManager.active_connections
    handler,                  \* where each client's websocket_monitor stands
    closed,                   \* the sockets whose peer has gone away
    bcast,                    \* where ConnectionManager.broadcast stands, and its locals
    disconnects               \* per client, the calls of disconnect so far

ctlVars    == <<cfg, now, nticks, nburst, nrich, pc, cur, pending, result, pre, reply>>
defconVars == <<current_defcon_level, adaptive_alert_threshold, defcon_history, defcon_status>>
scoreVars  == <<comprehensive_risk, wallet_activity>>
ledgerVars == <<recent_high_risk_events, historical_data, predictor_wallet_history,
                wallet_graph, wallet_graph_adjacency, transaction_history>>
marketVars == <<token_stats, token_risk_history, token_signals>>
socketVars == <<active_connections, handler, closed, bcast, disconnects>>
vars       == <<ctlVars, defconVars, scoreVars, ledgerVars, marketVars, socketVars>>

(* ------------------------------ bounds --------------------------------- *)
MaxTx    == 2     \* transactions of free traffic (Spec)
MaxBurst == 10    \* attacks of one burst (SpecBurst, SpecAlert)
MaxAfter == 2     \* transactions that follow a burst (SpecAlert)
MaxTicks == 2     \* clock advances (SpecBurst)
TickStep == 40    \* seconds per clock advance
MaxCalls == 50    \* repeated scorer calls for one wallet (SpecScorer)
MaxProbe == 1     \* scorer calls with a chosen input (SpecScorer)
MaxSignals == 203 \* direct add_signal calls (SpecSignals)
MaxLedgerTx == 3  \* transactions recorded on the ledger (SpecLedger)
MaxPoints == 1002 \* points inserted into the predictor's series (SpecSeries)
BlockLen == 40    \* inserts in a row with the same score (SpecSeries)
OddPoint == 97    \* every so many inserts one scores 50 (SpecSeries)
MaxTimedCalls == 52  \* scorer calls for the watched wallet (SpecActivity)
MaxOtherCalls == 1   \* scorer calls for another wallet (SpecActivity)
MaxIdle == 1         \* idle periods longer than the activity window (SpecActivity)
MaxBroadcasts == 2   \* broadcasts of the streaming task (SpecSockets)
MaxWaits == 6     \* quiet periods longer than the window (SpecLog)
MaxLogAttacks == 6 \* attacks between the quiet periods (SpecLog)
MaxFrameTx == 2   \* transactions among the other operations (SpecFrame)

(* ------------------------- program constants --------------------------- *)
RISK_BASELINE_AMOUNT   == 10000
WindowSeconds          == 60
ActivityWindowSeconds  == 600
ActivityKeepSeconds    == 3600
HighEventsMaxLen       == 100
TransactionHistoryMax  == 1000
HistoricalDataMax      == 1000
max_history_length     == 200
max_signals            == 200
TokenRiskHistoryMax    == 100
DaySeconds             == 86400
WhaleVolume            == 100000
HubCounterparts        == 20
HighRiskScore          == 70
ClusterWallets         == 10
DefconHistoryShown     == 10
MinForecastHistory     == 2
TrendWindow            == 10
TrendMargin            == 5
EmaAlphaTenths         == 3
ForecastPoints         == 30
ForecastStepSeconds    == 2
TrendStepMilli         == 50
RiskUnit               == 1000

(* ------------------------------ values --------------------------------- *)
Wallets  == {"A", "B", "C"}
NoId     == "missing"
NoToken  == "none"
Tokens   == {"QX"}
Levels   == {"LOW", "MEDIUM", "HIGH", "CRITICAL"}
HighLevels == {"HIGH", "CRITICAL"}

Min(a, b) == IF a <= b THEN a ELSE b
Max(a, b) == IF a >= b THEN a ELSE b
Abs(a)    == IF a >= 0 THEN a ELSE -a

RECURSIVE SumAmounts(_)
SumAmounts(s) == IF s = <<>> THEN 0 ELSE Head(s).amount + SumAmounts(Tail(s))

\* list[-n:] and deque(maxlen=n).append: keep the newest n elements.
LastN(s, n) == IF Len(s) <= n THEN s ELSE SubSeq(s, Len(s) - n + 1, Len(s))

\* Python's s[:limit]: the first `limit` items, and for a negative limit all
\* but the last -limit items.
SliceTo(s, limit) ==
    SubSeq(s, 1, IF limit >= 0 THEN Min(limit, Len(s)) ELSE Max(0, Len(s) + limit))

DequeAppend(s, x, n) == LastN(Append(s, x), n)
\* deque(maxlen=n).appendleft: the newest first, the oldest dropped at the right.
DequeAppendLeft(s, x, n) ==
    IF Len(s) < n THEN <<x>> \o s ELSE <<x>> \o SubSeq(s, 1, n - 1)

Tx(s, d, a, ty, tok) ==
    [source_id |-> s, dest_id |-> d, amount |-> a, type |-> ty, token_symbol |-> tok]
NoTx == Tx(NoId, NoId, 0, "transfer", NoToken)

\* The attack every burst repeats: a small self-transfer (wash trading).
AttackTx == Tx("A", "A", 1000, "transfer", NoToken)

\* Other traffic, one transaction of each kind the scorer tells apart.
\* A self-transfer of five times the baseline amount, on a token.
ScenarioTx == Tx("A", "A", 50000, "transfer", "QX")

TxInputs ==
    { ScenarioTx,
      Tx("A", "B", 1000, "transfer", NoToken),
      Tx("A", "B", 60000, "transfer", "QX"),
      Tx("B", "A", 250000, "transfer", "QX"),
      Tx("B", "B", 1000, "transfer", "QX"),
      Tx("A", "A", 60000, "mixer", "QX"),
      Tx("A", "B", -5000, "transfer", NoToken),
      Tx(NoId, "B", 1000, "transfer", NoToken) }

\* The traffic that follows a burst: a transfer the scorer rates MEDIUM, a
\* self-transfer it rates HIGH and one whose factors add up to over 100.
AlertInputs ==
    { Tx("B", "A", 250000, "transfer", "QX"),
      Tx("B", "B", 1000, "transfer", "QX"),
      Tx("A", "A", 250000, "transfer", "QX") }

\* Inputs of direct scorer calls: amounts around the level boundaries, and a
\* negative one (the Transaction model does not bound the amount).
ScorerInputs ==
    { Tx("A", d, a, ty, NoToken) :
        d \in Wallets, a \in {-5000, 1000, 195000, 200000}, ty \in {"transfer", "spam"} }

\* What a provider that answers may say: the score it names (before the
\* client clamps it) and the level it names, which need not agree.
Reply(s, l, th) == [risk_score |-> s, risk_level |-> l, threat |-> th]
ProviderReplies ==
    { Reply(-10, "LOW", "None"),
      Reply(55, "MEDIUM", "Spam"),
      Reply(85, "HIGH", "WashTrading"),
      Reply(120, "CRITICAL", "FlashLoan") }
BurstReply == Reply(85, "HIGH", "WashTrading")
RepliesFor(tx) == IF tx = AttackTx THEN {BurstReply} ELSE ProviderReplies

(* ------------------- AgentRiskAnalyst.compute_risk_score ---------------- *)
\* A scorer whose 5x branch also takes the ratio 5 itself.
AmountImpactInclusive(amount) ==
    IF amount > 10 * RISK_BASELINE_AMOUNT
    THEN Min(50, (2 * amount) \div RISK_BASELINE_AMOUNT)
    ELSE IF amount >= 5 * RISK_BASELINE_AMOUNT THEN 20 ELSE 0

AmountImpact(amount) ==
    IF amount > 10 * RISK_BASELINE_AMOUNT
    THEN Min(50, (2 * amount) \div RISK_BASELINE_AMOUNT)
    ELSE IF amount > 5 * RISK_BASELINE_AMOUNT THEN 20 ELSE 0

ActivityImpact(tx_frequency) ==
    IF tx_frequency > 50 THEN 40 ELSE IF tx_frequency > 20 THEN 20 ELSE 0

TxTypeRisk(ty) ==
    CASE ty = "transfer"      -> 0
      [] ty = "wash_trading"  -> 80
      [] ty = "flash_loan"    -> 90
      [] ty = "contract_call" -> 15
      [] ty = "mixer"         -> 95
      [] ty = "spam"          -> 70
      [] OTHER                -> 10

TypeImpact(ty) == IF TxTypeRisk(ty) > 20 THEN TxTypeRisk(ty) ELSE 0

\* wallet_history is None (present = FALSE) or carries avg_amount = sum / count.
NoWalletHistory == [present |-> FALSE, sum |-> 0, count |-> 0]

DeviationImpact(amount, wh) ==
    IF wh.present /\ wh.count > 0 /\ wh.sum > 0
          /\ Abs(amount * wh.count - wh.sum) > 5 * wh.sum
    THEN Min(30, (5 * Abs(amount * wh.count - wh.sum)) \div wh.sum)
    ELSE 0

\* A scorer that adds half as much for a self-transfer.
SelfTransferImpactHalved(tx) == IF tx.source_id = tx.dest_id THEN 35 ELSE 0

SelfTransferImpact(tx) == IF tx.source_id = tx.dest_id THEN 70 ELSE 0

RawRiskScore(tx, wh, freq) ==
    AmountImpact(tx.amount) + ActivityImpact(freq) + TypeImpact(tx.type)
        + DeviationImpact(tx.amount, wh) + SelfTransferImpact(tx)

ScorerFactors(tx, wh, freq) ==
       (IF AmountImpact(tx.amount) > 0 THEN <<"Amount Deviation">> ELSE <<>>)
    \o (IF ActivityImpact(freq) > 0 THEN <<"High Activity Level">> ELSE <<>>)
    \o (IF TypeImpact(tx.type) > 0 THEN <<"Transaction Type">> ELSE <<>>)
    \o (IF DeviationImpact(tx.amount, wh) > 0 THEN <<"Historical Deviation">> ELSE <<>>)
    \o (IF SelfTransferImpact(tx) > 0 THEN <<"Self-Transfer">> ELSE <<>>)

\* A scorer that maps levels by the cut points 70/40/20 instead.
ScorerLevelShifted(risk_score) ==
    IF risk_score >= 70 THEN "CRITICAL"
    ELSE IF risk_score >= 40 THEN "HIGH"
    ELSE IF risk_score >= 20 THEN "MEDIUM" ELSE "LOW"

ScorerLevel(risk_score) ==
    IF risk_score >= 90 THEN "CRITICAL"
    ELSE IF risk_score >= 70 THEN "HIGH"
    ELSE IF risk_score >= 40 THEN "MEDIUM" ELSE "LOW"

\* A scorer that returns the accumulated score as it is.
ClampScoreMissing(risk_score) == risk_score

ClampScore(risk_score) == Min(100, Max(0, risk_score))

NoComprehensive ==
    [called |-> FALSE, raw |-> 0, risk_score |-> 0, risk_level |-> "LOW", factors |-> <<>>]

compute_risk_score(tx, wh, freq) ==
    [called     |-> TRUE,
     raw        |-> RawRiskScore(tx, wh, freq),
     risk_score |-> ClampScore(RawRiskScore(tx, wh, freq)),
     risk_level |-> ScorerLevel(RawRiskScore(tx, wh, freq)),
     factors    |-> ScorerFactors(tx, wh, freq)]

\* The timestamps of one wallet that the call counts and the ones it keeps.
ActivityAfterAppend(act, w, t) == Append(act[w], t)
\* A count that takes in every timestamp the wallet's list still holds.
ActivityFrequencyOfKept(act, w, t) ==
    Len(SelectSeq(ActivityAfterAppend(act, w, t),
                  LAMBDA x : x >= t - ActivityKeepSeconds))

ActivityFrequency(act, w, t) ==
    Len(SelectSeq(ActivityAfterAppend(act, w, t),
                  LAMBDA x : x >= t - ActivityWindowSeconds))
ActivityCleaned(act, w, t) ==
    [act EXCEPT ![w] = SelectSeq(ActivityAfterAppend(act, w, t),
                                 LAMBDA x : x >= t - ActivityKeepSeconds)]

classify_category(risk_score) ==
    IF risk_score >= 85 THEN "WHALE_DUMP"
    ELSE IF risk_score >= 70 THEN "SUSPICIOUS_CLUSTER"
    ELSE IF risk_score >= 60 THEN "SPAM_ACTIVITY"
    ELSE IF risk_score >= 45 THEN "ANOMALOUS_PATTERN" ELSE "NORMAL_ACTIVITY"

(* ------------- the fallback analyses (provider unavailable) ------------- *)
\* AgentRiskAnalyst._fallback_analysis and AegisBrain._fallback_analysis add
\* the same two rules and map the level by their own cut points.
FallbackScore(tx) ==
    (IF tx.amount > 50000 THEN 30 ELSE 0)
        + (IF tx.source_id = tx.dest_id THEN 70 ELSE 0)

FallbackLevel(risk_score) ==
    IF risk_score >= 70 THEN "CRITICAL"
    ELSE IF risk_score >= 40 THEN "HIGH"
    ELSE IF risk_score >= 20 THEN "MEDIUM" ELSE "LOW"

FallbackFactors(tx) ==
       (IF tx.amount > 50000 THEN <<"Large Amount">> ELSE <<>>)
    \o (IF tx.source_id = tx.dest_id THEN <<"Wash Trading">> ELSE <<>>)

Analysis(s, l, th, f, rec, ai) ==
    [risk_score |-> s, risk_level |-> l, threat_type |-> th,
     risk_factors |-> f, recommendation |-> rec, ai_generated |-> ai]

analyst_fallback_analysis(tx) ==
    Analysis(Min(100, FallbackScore(tx)),
             FallbackLevel(FallbackScore(tx)),
             IF FallbackScore(tx) > 20 THEN "SUSPICIOUS_PATTERN" ELSE "NORMAL",
             FallbackFactors(tx),
             IF FallbackScore(tx) < 50 THEN "Monitor" ELSE "Investigate",
             FALSE)

brain_fallback_analysis(tx) ==
    Analysis(Min(100, FallbackScore(tx)),
             FallbackLevel(FallbackScore(tx)),
             IF FallbackScore(tx) > 20 THEN "SuspiciousPattern" ELSE "None",
             FallbackFactors(tx),
             IF FallbackScore(tx) < 50 THEN "Monitor" ELSE "Investigate",
             FALSE)

\* _parse_ai_response of either client: the score clamped, the level as named.
parse_ai_response(r) ==
    Analysis(Min(100, Max(0, r.risk_score)), r.risk_level, r.threat,
             <<"AI factor">>, "Monitor", TRUE)

(* ---------------------- adjust_sensitivity (DEFCON) --------------------- *)
AttackCount(events, t) ==
    Len(SelectSeq(events, LAMBDA e : e >= t - WindowSeconds))

\* A controller that enters DEFCON 3 one attack late.
DefconLevelLate(attack_count) ==
    IF attack_count >= 10 THEN 1
    ELSE IF attack_count >= 5 THEN 2
    ELSE IF attack_count >= 4 THEN 3
    ELSE IF attack_count >= 1 THEN 4 ELSE 5

DefconLevel(attack_count) ==
    IF attack_count >= 10 THEN 1
    ELSE IF attack_count >= 5 THEN 2
    ELSE IF attack_count >= 3 THEN 3
    ELSE IF attack_count >= 1 THEN 4 ELSE 5

\* A controller whose thresholds for DEFCON 3 and DEFCON 4 are exchanged.
DefconThresholdSwapped(attack_count) ==
    IF attack_count >= 10 THEN 50
    ELSE IF attack_count >= 5 THEN 60
    ELSE IF attack_count >= 3 THEN 75
    ELSE IF attack_count >= 1 THEN 70 ELSE 80

\* A controller that keeps the DEFCON 4 threshold when it returns to normal.
DefconThresholdSticky(attack_count) ==
    IF attack_count >= 10 THEN 50
    ELSE IF attack_count >= 5 THEN 60
    ELSE IF attack_count >= 3 THEN 70 ELSE 75

DefconThreshold(attack_count) ==
    IF attack_count >= 10 THEN 50
    ELSE IF attack_count >= 5 THEN 60
    ELSE IF attack_count >= 3 THEN 70
    ELSE IF attack_count >= 1 THEN 75 ELSE 80

\* A log entry that always names the initial level as the previous one.
DefconEntryFromInitial(t, prev, count) ==
    [timestamp |-> t, previous_defcon |-> 5, new_defcon |-> DefconLevel(count),
     attack_count_1min |-> count, threshold_adjusted |-> DefconThreshold(count)]

DefconEntry(t, prev, count) ==
    [timestamp |-> t, previous_defcon |-> prev, new_defcon |-> DefconLevel(count),
     attack_count_1min |-> count, threshold_adjusted |-> DefconThreshold(count)]

DefconStatus(count) ==
    [defcon_level |-> DefconLevel(count), alert_threshold |-> DefconThreshold(count),
     attacks_last_minute |-> count]

\* A controller that logs every call, whether the level changed or not.
adjust_sensitivity_logging_all(t) ==
    LET attack_count == AttackCount(recent_high_risk_events, t) IN
    /\ current_defcon_level' = DefconLevel(attack_count)
    /\ adaptive_alert_threshold' = DefconThreshold(attack_count)
    /\ defcon_history' =
          Append(defcon_history, DefconEntry(t, current_defcon_level, attack_count))
    /\ defcon_status' = DefconStatus(attack_count)

\* The whole of adjust_sensitivity, called at time t.
adjust_sensitivity(t) ==
    LET attack_count == AttackCount(recent_high_risk_events, t) IN
    /\ current_defcon_level' = DefconLevel(attack_count)
    /\ adaptive_alert_threshold' = DefconThreshold(attack_count)
    /\ defcon_history' =
          IF current_defcon_level # DefconLevel(attack_count)
          THEN Append(defcon_history, DefconEntry(t, current_defcon_level, attack_count))
          ELSE defcon_history
    /\ defcon_status' = DefconStatus(attack_count)

(* --------------- sensitivity escalation in analyze_transaction ---------- *)
Escalates(level, threshold, a) ==
    level <= 2 /\ a.risk_score >= threshold /\ a.risk_level \in {"MEDIUM", "HIGH"}

Escalate(level, threshold, a) ==
    IF level <= 2 /\ a.risk_score >= threshold
    THEN IF a.risk_level = "MEDIUM"
         THEN [a EXCEPT !.risk_level = "HIGH", !.risk_score = Min(100, a.risk_score + 10)]
         ELSE IF a.risk_level = "HIGH"
         THEN [a EXCEPT !.risk_level = "CRITICAL", !.risk_score = Min(100, a.risk_score + 5)]
         ELSE a
    ELSE a

\* Provider path (lines 196-223): the provider's analysis is primary and the
\* result is marked ai_generated whatever produced it.
ProviderRiskAnalysis(level, threshold, ai) ==
    [Escalate(level, threshold, ai) EXCEPT !.ai_generated = TRUE]

\* Rule path (lines 243-269): scores merged by max, level from the scorer.
RuleRiskAnalysis(level, threshold, comp, ai) ==
    Escalate(level, threshold,
             Analysis(Max(comp.risk_score, ai.risk_score), comp.risk_level,
                      ai.threat_type, comp.factors \o ai.risk_factors,
                      ai.recommendation, ai.ai_generated))

(* ------------------------------ wallet ledger --------------------------- *)
\* `order` is the position of the wallet's key in the wallet_graph dict: keys
\* are kept in the order they were first inserted.
NoNode == [exists |-> FALSE, order |-> 0, transactions |-> <<>>,
           counterparts |-> [w \in Wallets |-> 0], total_volume |-> 0, risk_score |-> 0]

Node(g, w) ==
    IF g[w].exists THEN g[w]
    ELSE [NoNode EXCEPT !.exists = TRUE,
                        !.order = Cardinality({v \in Wallets : g[v].exists}) + 1]

\* Lines 471-486: the source side of _update_wallet_graph.
UpdateSource(g, tx, tick) ==
    [g EXCEPT ![tx.source_id] =
        [Node(g, tx.source_id) EXCEPT
            !.transactions = Append(@, tick),
            !.total_volume = @ + tx.amount,
            !.counterparts = [@ EXCEPT ![tx.dest_id] = @ + 1]]]

\* A destination side that leaves the counterpart count alone.
UpdateDestUncounted(g, tx, tick) ==
    [g EXCEPT ![tx.dest_id] =
        [Node(g, tx.dest_id) EXCEPT !.transactions = Append(@, tick)]]

\* Lines 489-502: the destination side.
UpdateDest(g, tx, tick) ==
    [g EXCEPT ![tx.dest_id] =
        [Node(g, tx.dest_id) EXCEPT
            !.transactions = Append(@, tick),
            !.counterparts = [@ EXCEPT ![tx.source_id] = @ + 1]]]

UpdateGraph(g, tx, tick) == UpdateDest(UpdateSource(g, tx, tick), tx, tick)

UpdateAdjacency(adj, tx) ==
    [w \in Wallets |->
        adj[w] \cup (IF w = tx.source_id THEN {tx.dest_id} ELSE {})
               \cup (IF w = tx.dest_id THEN {tx.source_id} ELSE {})]

UpdateTransactionHistory(h, tx) == LastN(Append(h, tx), TransactionHistoryMax)

WalletTxs(h, w) == SelectSeq(h, LAMBDA t : t.source_id = w \/ t.dest_id = w)

\* Lines 150-166: the wallet_history handed to the scorer.
WalletHistoryFor(g, h, w) ==
    IF g[w].exists /\ Len(WalletTxs(h, w)) > 0
    THEN [present |-> TRUE, sum |-> SumAmounts(WalletTxs(h, w)),
          count |-> Len(WalletTxs(h, w))]
    ELSE NoWalletHistory

get_wallet_insights(g, w) ==
    [exists |-> g[w].exists,
     transaction_count |-> Len(g[w].transactions),
     total_volume |-> g[w].total_volume,
     unique_counterparts |-> Cardinality({c \in Wallets : g[w].counterparts[c] > 0})]

\* Python orders the wallet ids as strings.
WalletOrder == <<"A", "B", "C">>
WalletIndex(w) == CHOOSE i \in 1..Len(WalletOrder) : WalletOrder[i] = w

\* Lines 571-575: the wallets sorted by total_volume, largest first; sorted()
\* is stable, so equal volumes keep the dict's insertion order.
Precedes(g, v, w) ==
    \/ g[v].total_volume > g[w].total_volume
    \/ (g[v].total_volume = g[w].total_volume /\ g[v].order < g[w].order)

SortedByVolume(g) ==
    LET E == {w \in Wallets : g[w].exists}
    IN [i \in 1..Cardinality(E) |->
           CHOOSE w \in E : Cardinality({v \in E : Precedes(g, v, w)}) = i - 1]

TopWallets(g, max_nodes) == SliceTo(SortedByVolume(g), max_nodes)

CounterpartKeys(data) == {c \in Wallets : data.counterparts[c] > 0}

\* Lines 586-594.
NodeRole(data) ==
    IF data.total_volume > WhaleVolume THEN "whale"
    ELSE IF Cardinality(CounterpartKeys(data)) > HubCounterparts THEN "hub"
    ELSE IF data.risk_score > HighRiskScore THEN "high_risk"
    ELSE "normal"

GraphNode(w, data) ==
    [id |-> w, role |-> NodeRole(data), risk_score |-> data.risk_score,
     value |-> data.total_volume]

\* An edge key that keeps the direction in which the pair was visited.
EdgeKeyDirected(w, c) == <<w, c>>

\* Line 611: tuple(sorted([wallet_id, connected_wallet])).
EdgeKey(w, c) == IF WalletIndex(w) <= WalletIndex(c) THEN <<w, c>> ELSE <<c, w>>

\* Lines 606-614: every (wallet, connected wallet) the two loops visit.
EdgeVisits(ids, adj) == {p \in ids \X ids : p[2] \in adj[p[1]]}

\* edge_counts: each key counts the visits that produced it.
EdgeCounts(ids, adj) ==
    [k \in {EdgeKey(p[1], p[2]) : p \in EdgeVisits(ids, adj)} |->
        Cardinality({p \in EdgeVisits(ids, adj) : EdgeKey(p[1], p[2]) = k})]

\* Lines 617-622: one edge per key of edge_counts (the list's order is the
\* order of a set iteration and is left out).
GraphEdges(ids, adj) ==
    {[source |-> k[1], target |-> k[2], weight |-> EdgeCounts(ids, adj)[k]] :
        k \in DOMAIN EdgeCounts(ids, adj)}

\* Lines 625-643: the two clusters, each listed only when it is not empty.
GraphClusters(g, top) ==
    LET high   == SelectSeq(top, LAMBDA w : g[w].risk_score > HighRiskScore)
        whales == SelectSeq(top, LAMBDA w : g[w].total_volume > WhaleVolume)
    IN    (IF high # <<>>
           THEN <<[cluster_id |-> "high_risk_cluster",
                   wallets |-> SliceTo(high, ClusterWallets)]>>
           ELSE <<>>)
       \o (IF whales # <<>>
           THEN <<[cluster_id |-> "whale_cluster",
                   wallets |-> SliceTo(whales, ClusterWallets)]>>
           ELSE <<>>)

get_wallet_graph(g, adj, max_nodes) ==
    LET top == TopWallets(g, max_nodes)
        ids == {top[i] : i \in 1..Len(top)}
    IN [nodes    |-> [i \in 1..Len(top) |-> GraphNode(top[i], g[top[i]])],
        edges    |-> GraphEdges(ids, adj),
        clusters |-> GraphClusters(g, top)]

(* -------------------------------- predictor ----------------------------- *)
Point(t, score) == [timestamp |-> t, risk_score |-> score]

add_data_point(hd, t, score) == LastN(Append(hd, Point(t, score)), HistoricalDataMax)

\* A per-wallet series that drops the newest point when it is full.
add_wallet_data_point_keep_oldest(wh, w, t, score) ==
    [wh EXCEPT ![w] = IF Len(@) < max_history_length
                      THEN Append(@, Point(t, score)) ELSE @]

add_wallet_data_point(wh, w, t, score) ==
    [wh EXCEPT ![w] = DequeAppend(@, Point(t, score), max_history_length)]

\* forecast (lines 175-260).  The forecast works in floats: the model keeps
\* the moving average and the predicted scores in thousandths of a point
\* (RiskUnit) and takes the integer part at each smoothing step.
RECURSIVE SumScores(_)
SumScores(pts) == IF pts = <<>> THEN 0 ELSE Head(pts).risk_score + SumScores(Tail(pts))

\* Lines 211-225: mean of the last 10 scores against the mean of the 10
\* before them, or of the first 5 of the last 10 when fewer than 20 exist.
\* A trend that also reports a difference of exactly the margin.
ForecastTrendInclusive(pts) ==
    IF Len(pts) < TrendWindow THEN "STABLE"
    ELSE LET recent == LastN(pts, TrendWindow)
             older  == IF Len(pts) >= 2 * TrendWindow
                       THEN SubSeq(pts, Len(pts) - 2 * TrendWindow + 1, Len(pts) - TrendWindow)
                       ELSE SubSeq(recent, 1, 5)
             r == SumScores(recent) * Len(older)
             o == SumScores(older) * Len(recent)
             m == TrendMargin * Len(recent) * Len(older)
         IN IF r >= o + m THEN "UP" ELSE IF r <= o - m THEN "DOWN" ELSE "STABLE"

ForecastTrend(pts) ==
    IF Len(pts) < TrendWindow THEN "STABLE"
    ELSE LET recent == LastN(pts, TrendWindow)
             older  == IF Len(pts) >= 2 * TrendWindow
                       THEN SubSeq(pts, Len(pts) - 2 * TrendWindow + 1, Len(pts) - TrendWindow)
                       ELSE SubSeq(recent, 1, 5)
             r == SumScores(recent) * Len(older)
             o == SumScores(older) * Len(recent)
             m == TrendMargin * Len(recent) * Len(older)
         IN IF r > o + m THEN "UP" ELSE IF r < o - m THEN "DOWN" ELSE "STABLE"

\* Lines 228-235: ema = 0.3 * score + 0.7 * ema over the last 10 scores,
\* starting from the last score.
RECURSIVE EmaOver(_, _)
EmaOver(pts, ema) ==
    IF pts = <<>> THEN ema
    ELSE EmaOver(Tail(pts),
                 (EmaAlphaTenths * Head(pts).risk_score * RiskUnit
                     + (10 - EmaAlphaTenths) * ema) \div 10)

ForecastEma(pts) ==
    EmaOver(LastN(pts, TrendWindow), pts[Len(pts)].risk_score * RiskUnit)

TrendAdjustment(trend) ==
    IF trend = "UP" THEN TrendStepMilli ELSE IF trend = "DOWN" THEN -TrendStepMilli ELSE 0

\* A forecast that returns the extrapolated score as it is.
ClampForecastMissing(predicted) == predicted

\* Line 246: max(0.0, min(100.0, predicted_score)).
ClampForecast(predicted) == Max(0, Min(100 * RiskUnit, predicted))

forecast(wh, w, t) ==
    IF Len(wh[w]) < MinForecastHistory
    THEN [wallet_id |-> w, history |-> <<>>, forecast |-> <<>>, trend |-> "STABLE",
          error |-> "Insufficient data"]
    ELSE [wallet_id |-> w,
          history   |-> wh[w],
          forecast  |-> [i \in 1..ForecastPoints |->
                           [timestamp |-> t + ForecastStepSeconds * i,
                            predicted_risk |->
                               ClampForecast(ForecastEma(wh[w])
                                   + TrendAdjustment(ForecastTrend(wh[w])) * i)]],
          trend     |-> ForecastTrend(wh[w])]

(* ------------------------------ market intel ---------------------------- *)
NoStats == [exists |-> FALSE, latest_risk_score |-> 0, alerts_24h |-> 0]

AlertsIn(hist, t) ==
    Len(SelectSeq(hist, LAMBDA p : p.timestamp >= t - DaySeconds /\ p.risk_score >= 70))

\* update_token_from_event: the token's history and its stats.
UpdateTokenHistory(th, tok, t, score) ==
    [th EXCEPT ![tok] = DequeAppend(@, Point(t, score), TokenRiskHistoryMax)]

UpdateTokenStats(ts, th, tok, t, score, level) ==
    [ts EXCEPT ![tok] =
        [exists |-> TRUE,
         latest_risk_score |-> score,
         alerts_24h |-> IF level \in HighLevels
                        THEN AlertsIn(UpdateTokenHistory(th, tok, t, score)[tok], t)
                        ELSE ts[tok].alerts_24h]]

Signal(tx, ra, t) ==
    [token_symbol |-> tx.token_symbol, timestamp |-> t, signal_type |-> ra.threat_type,
     risk_score |-> ra.risk_score, risk_level |-> ra.risk_level]

add_signal(signals, sig) == DequeAppendLeft(signals, sig, max_signals)

get_recent_signals(signals, limit) == SliceTo(signals, limit)

SignalsAfterAnyLevel(signals, tx, ra, t) == add_signal(signals, Signal(tx, ra, t))

\* Lines 345-357: a TokenSignal is created and stored only when the final
\* risk level is HIGH or CRITICAL.
SignalsAfter(signals, tx, ra, t) ==
    IF ra.risk_level \in HighLevels
    THEN add_signal(signals, Signal(tx, ra, t))
    ELSE signals

(* ------------------------- ConnectionManager ---------------------------- *)
\* The websockets that may connect to /ws/monitor.
Clients == {"c1", "c2"}

\* broadcast between two calls, and the locals it holds while it awaits a
\* send: the position of the list iterator, the connection being sent to,
\* the connections whose send raised.
NoBroadcast == [pc |-> "idle", idx |-> 0, conn |-> "", disconnected |-> <<>>, runs |-> 0]

Member(list, c) == \E i \in 1..Len(list) : list[i] = c

\* list.remove(c) for a c in the list: the first occurrence goes.
ListRemove(list, c) ==
    LET i == CHOOSE k \in 1..Len(list) : list[k] = c /\ \A j \in 1..(k - 1) : list[j] # c
    IN SubSeq(list, 1, i - 1) \o SubSeq(list, i + 1, Len(list))

\* One call manager.disconnect(c) on the state st = [list, log, raised]:
\* list.remove(c) raises ValueError when c is not in the list.
disconnect(st, c) ==
    IF Member(st.list, c)
    THEN [list   |-> ListRemove(st.list, c),
          log    |-> [st.log EXCEPT ![c].removed = @ + 1],
          raised |-> FALSE]
    ELSE [list   |-> st.list,
          log    |-> [st.log EXCEPT ![c].missing = @ + 1],
          raised |-> TRUE]

\* Lines 61-63: the loop over `disconnected`, left by the first ValueError.
RECURSIVE RemoveDisconnected(_, _)
RemoveDisconnected(st, d) ==
    IF d = <<>> \/ st.raised THEN st
    ELSE RemoveDisconnected(disconnect(st, Head(d)), Tail(d))

(* ------------------------------ the state ------------------------------- *)
\* What __init__ can leave behind.  brain_client: AegisBrain.client is set.
\* analyst_init: AgentRiskAnalyst.__init__ ran to its end (it returns early,
\* before wallet_activity is created, when no API key is found).
\* analyst_client: AgentRiskAnalyst.client is set.
Config(b, i, c) == [brain_client |-> b, analyst_init |-> i, analyst_client |-> c]
Configs ==
    { Config(FALSE, FALSE, FALSE),   \* no API key
      Config(TRUE, TRUE, TRUE),      \* key found, provider reachable
      Config(FALSE, TRUE, TRUE),     \* key found, AegisBrain's test call failed
      Config(FALSE, TRUE, FALSE) }   \* key found, Groq() could not be built

NoAnalysis == Analysis(0, "LOW", "NORMAL", <<>>, "Monitor", FALSE)
NoPending  == [comp |-> NoComprehensive, ra |-> NoAnalysis, ai_analysis |-> NoAnalysis]

\* What the caller gets, with the local ai_analysis the result was made from.
Outcome(st, err, tx, ra, ai) ==
    [status |-> st, error |-> err, tx |-> tx, risk_analysis |-> ra, ai_analysis |-> ai]
\* Nothing has been queried yet.
NoReply == [kind |-> "none"]

NoResult == Outcome("none", "", NoTx, NoAnalysis, NoAnalysis)

Stores == <<ledgerVars, marketVars>>

InitWith(configs) ==
    /\ cfg \in configs
    /\ now = 0 /\ nticks = 0 /\ nburst = 0 /\ nrich = 0
    /\ pc = "idle" /\ cur = NoTx /\ pending = NoPending /\ result = NoResult
    /\ reply = NoReply
    /\ comprehensive_risk = NoComprehensive
    /\ recent_high_risk_events = <<>>
    /\ current_defcon_level = 5
    /\ adaptive_alert_threshold = 80
    /\ defcon_history = <<>>
    /\ defcon_status = DefconStatus(0)
    /\ wallet_graph = [w \in Wallets |-> NoNode]
    /\ wallet_graph_adjacency = [w \in Wallets |-> {}]
    /\ transaction_history = <<>>
    /\ historical_data = <<>>
    /\ predictor_wallet_history = [w \in Wallets |-> <<>>]
    /\ wallet_activity = [w \in Wallets |-> <<>>]
    /\ token_stats = [k \in Tokens |-> NoStats]
    /\ token_risk_history = [k \in Tokens |-> <<>>]
    /\ token_signals = <<>>
    /\ active_connections = <<>>
    /\ handler = [c \in Clients |-> "absent"]
    /\ closed = [c \in Clients |-> FALSE]
    /\ bcast = NoBroadcast
    /\ disconnects = [c \in Clients |-> [removed |-> 0, missing |-> 0]]
    /\ pre = <<<<(<<>>), (<<>>), [w \in Wallets |-> <<>>], [w \in Wallets |-> NoNode],
                 [w \in Wallets |-> {}], (<<>>)>>,
               <<[k \in Tokens |-> NoStats], [k \in Tokens |-> <<>>], (<<>>)>>>>

Init == InitWith(Configs)

(* ----------------------- analyze_transaction, in parts ------------------ *)
\* Lines 271-286: the high-severity queue, the predictor series, the ledger.
Record(tx, ra, tick) ==
    /\ recent_high_risk_events' =
          IF ra.risk_level \in HighLevels
          THEN DequeAppend(recent_high_risk_events, now, HighEventsMaxLen)
          ELSE recent_high_risk_events
    /\ historical_data' = add_data_point(historical_data, now, ra.risk_score)
    /\ predictor_wallet_history' =
          add_wallet_data_point(predictor_wallet_history, tx.source_id, now, ra.risk_score)
    /\ wallet_graph' = UpdateGraph(wallet_graph, tx, tick)
    /\ wallet_graph_adjacency' = UpdateAdjacency(wallet_graph_adjacency, tx)
    /\ transaction_history' = UpdateTransactionHistory(transaction_history, tx)

\* RiskEvent(...) validates 0 <= risk_score <= 100 (events.py line 17).
RiskEventRejects(ra) == ~(0 <= ra.risk_score /\ ra.risk_score <= 100)

\* process_risk_event is entered when risk_score > 70 and, for a CRITICAL
\* event, calls self._simulate_active_defense, which AgentAutomator lacks.
AutomatorRaises(ra) == ra.risk_score > 70 /\ ra.risk_level = "CRITICAL"

\* Lines 302-377: the RiskEvent, the automator, the token stores, the return.
Emit(tx, ra, ai) ==
    IF RiskEventRejects(ra)
    THEN /\ result' = Outcome("error", "ValidationError", tx, ra, ai)
         /\ UNCHANGED marketVars
    ELSE IF AutomatorRaises(ra)
    THEN /\ result' = Outcome("error", "AttributeError", tx, ra, ai)
         /\ UNCHANGED marketVars
    ELSE /\ result' = Outcome("ok", "", tx, ra, ai)
         /\ IF tx.token_symbol # NoToken
            THEN /\ token_risk_history' =
                       UpdateTokenHistory(token_risk_history, tx.token_symbol, now, ra.risk_score)
                 /\ token_stats' =
                       UpdateTokenStats(token_stats, token_risk_history, tx.token_symbol,
                                        now, ra.risk_score, ra.risk_level)
                 /\ token_signals' = SignalsAfter(token_signals, tx, ra, now)
            ELSE UNCHANGED marketVars

\* analyze_transaction from its first line to its first provider call, or to
\* its end when no provider is called.  `tick` numbers the submission.
Submit(tx, tick) ==
    /\ pc = "idle"
    /\ cur' = tx
    /\ pre' = Stores
    /\ UNCHANGED <<cfg, socketVars, reply, now, nticks>>
    /\ IF tx.source_id = NoId \/ tx.dest_id = NoId
       THEN \* Transaction(...) cannot be built: pydantic raises before the call.
            /\ result' = Outcome("rejected", "ValidationError", tx, NoAnalysis, NoAnalysis)
            /\ UNCHANGED <<pc, pending, defconVars, scoreVars, ledgerVars, marketVars>>
       ELSE
            /\ adjust_sensitivity(now)
            /\ IF cfg.brain_client
               THEN /\ pc' = "await_brain"
                    /\ result' = Outcome("running", "", tx, NoAnalysis, NoAnalysis)
                    /\ UNCHANGED <<pending, scoreVars, ledgerVars, marketVars>>
               ELSE IF ~cfg.analyst_init
               THEN \* compute_risk_score reads self.wallet_activity, never created.
                    /\ result' = Outcome("error", "AttributeError", tx, NoAnalysis, NoAnalysis)
                    /\ UNCHANGED <<pc, pending, scoreVars, ledgerVars, marketVars>>
               ELSE LET wh   == WalletHistoryFor(wallet_graph, transaction_history, tx.source_id)
                        freq == ActivityFrequency(wallet_activity, tx.source_id, now)
                        comp == compute_risk_score(tx, wh, freq)
                        ra   == RuleRiskAnalysis(current_defcon_level', adaptive_alert_threshold',
                                                 comp, analyst_fallback_analysis(tx))
                    IN /\ comprehensive_risk' = comp
                       /\ wallet_activity' = ActivityCleaned(wallet_activity, tx.source_id, now)
                       /\ IF cfg.analyst_client
                          THEN /\ pc' = "await_analyst"
                               /\ pending' = [NoPending EXCEPT !.comp = comp]
                               /\ result' = Outcome("running", "", tx, NoAnalysis, NoAnalysis)
                               /\ UNCHANGED <<ledgerVars, marketVars>>
                          ELSE /\ Record(tx, ra, tick)
                               /\ Emit(tx, ra, analyst_fallback_analysis(tx))
                               /\ UNCHANGED <<pc, pending>>

\* AegisBrain.analyze_transaction returns `ai` (parsed reply or fallback);
\* the pipeline runs on to explain_risk_decision, its second provider call.
BrainReturns(ai) ==
    /\ pc = "await_brain"
    /\ LET ra == ProviderRiskAnalysis(current_defcon_level, adaptive_alert_threshold, ai)
       IN /\ Record(cur, ra, nburst + nrich)
          /\ pending' = [comp |-> NoComprehensive, ra |-> ra, ai_analysis |-> ai]
    /\ pc' = "await_explain"
    /\ UNCHANGED <<cfg, socketVars, reply, now, nticks, nburst, nrich, cur, result, pre,
                   defconVars, scoreVars, marketVars>>

\* AgentRiskAnalyst.analyze returns `ai`; the pipeline runs to its end.
AnalystReturns(ai) ==
    /\ pc = "await_analyst"
    /\ LET ra == RuleRiskAnalysis(current_defcon_level, adaptive_alert_threshold,
                                  pending.comp, ai)
       IN /\ Record(cur, ra, nburst + nrich)
          /\ Emit(cur, ra, ai)
    /\ pc' = "idle"
    /\ pending' = NoPending
    /\ UNCHANGED <<cfg, socketVars, reply, now, nticks, nburst, nrich, cur, pre, defconVars, scoreVars>>

(* -------------------------------- actions ------------------------------- *)
\* The stream hands over any transaction (Spec).
SubmitAny ==
    /\ nrich < MaxTx
    /\ nrich' = nrich + 1
    /\ nburst' = nburst
    /\ \E tx \in TxInputs : Submit(tx, nburst + nrich + 1)

\* The stream hands over one more attack of a burst (SpecBurst, SpecAlert).
SubmitAttack ==
    /\ nburst < MaxBurst
    /\ nrich = 0
    /\ nburst' = nburst + 1
    /\ nrich' = nrich
    /\ Submit(AttackTx, nburst + nrich + 1)

\* The stream hands over a transaction after a burst (SpecAlert).
SubmitAfterBurst ==
    /\ nrich < MaxAfter
    /\ nrich' = nrich + 1
    /\ nburst' = nburst
    /\ \E tx \in AlertInputs : Submit(tx, nburst + nrich + 1)

BrainReply == \E r \in RepliesFor(cur) : BrainReturns(parse_ai_response(r))

\* The call raised, or the reply could not be parsed.
BrainFail ==
    /\ cur # AttackTx
    /\ BrainReturns(brain_fallback_analysis(cur))

\* explain_risk_decision returns (reply or its own fallback, same state).
ExplainReturns ==
    /\ pc = "await_explain"
    /\ Emit(cur, pending.ra, pending.ai_analysis)
    /\ pc' = "idle"
    /\ pending' = NoPending
    /\ UNCHANGED <<cfg, socketVars, reply, now, nticks, nburst, nrich, cur, pre,
                   defconVars, scoreVars, ledgerVars>>

AnalystReply == \E r \in RepliesFor(cur) : AnalystReturns(parse_ai_response(r))

AnalystFail ==
    /\ cur # AttackTx
    /\ AnalystReturns(analyst_fallback_analysis(cur))

\* GET /api/defcon-status
GetDefconStatus ==
    /\ pc = "idle"
    /\ adjust_sensitivity(now)
    /\ UNCHANGED <<ctlVars, socketVars, scoreVars, ledgerVars, marketVars>>

\* Time passes between two transactions.
Tick ==
    /\ pc = "idle"
    /\ nticks < MaxTicks
    /\ nticks' = nticks + 1
    /\ now' = now + TickStep
    /\ UNCHANGED <<cfg, socketVars, reply, nburst, nrich, pc, cur, pending, result, pre,
                   defconVars, scoreVars, ledgerVars, marketVars>>

\* A direct call risk_analyst.compute_risk_score(tx, features, wh).
ScoreCall(tx, wh) ==
    /\ comprehensive_risk' =
          compute_risk_score(tx, wh, ActivityFrequency(wallet_activity, tx.source_id, now))
    /\ wallet_activity' = ActivityCleaned(wallet_activity, tx.source_id, now)
    /\ cur' = tx
    /\ UNCHANGED <<cfg, socketVars, reply, now, nticks, pc, pending, result, pre,
                   defconVars, ledgerVars, marketVars>>

\* The same wallet scored again and again (SpecScorer).
ScoreBurst ==
    /\ nburst < MaxCalls
    /\ nburst' = nburst + 1
    /\ nrich' = nrich
    /\ ScoreCall(AttackTx, NoWalletHistory)

\* One call with a chosen transaction and wallet history (SpecScorer).
ScoreOne ==
    /\ nrich < MaxProbe
    /\ nrich' = nrich + 1
    /\ nburst' = nburst
    /\ \E tx \in ScorerInputs :
         \E wh \in {NoWalletHistory, [present |-> TRUE, sum |-> 1000, count |-> 1]} :
            ScoreCall(tx, wh)

\* The watched wallet scored once more (SpecActivity).
ScoreSame ==
    /\ nburst < MaxTimedCalls
    /\ nburst' = nburst + 1
    /\ nrich' = nrich
    /\ ScoreCall(AttackTx, NoWalletHistory)

\* Another wallet scored (SpecActivity).
OtherTx == Tx("B", "A", 1000, "transfer", NoToken)
ScoreOther ==
    /\ nrich < MaxOtherCalls
    /\ nrich' = nrich + 1
    /\ nburst' = nburst
    /\ ScoreCall(OtherTx, NoWalletHistory)

\* No call for longer than the activity window (SpecActivity).
Idle ==
    /\ nticks < MaxIdle
    /\ nticks' = nticks + 1
    /\ now' = now + ActivityWindowSeconds + 1
    /\ UNCHANGED <<cfg, socketVars, reply, nburst, nrich, pc, cur, pending, result, pre,
                   defconVars, scoreVars, ledgerVars, marketVars>>

\* websocket_monitor up to its receive loop: connect accepts the socket and
\* appends it (SpecSockets).
Connect(c) ==
    /\ handler[c] = "absent"
    /\ active_connections' = Append(active_connections, c)
    /\ handler' = [handler EXCEPT ![c] = "receiving"]
    /\ UNCHANGED <<closed, bcast, disconnects>>
    /\ UNCHANGED <<ctlVars, defconVars, scoreVars, ledgerVars, marketVars>>

\* The peer of a connected client goes away.
PeerCloses(c) ==
    /\ handler[c] = "receiving"
    /\ ~closed[c]
    /\ closed' = [closed EXCEPT ![c] = TRUE]
    /\ UNCHANGED <<active_connections, handler, bcast, disconnects>>
    /\ UNCHANGED <<ctlVars, defconVars, scoreVars, ledgerVars, marketVars>>

\* Lines 156-177: receive_text raises WebSocketDisconnect and the handler
\* calls disconnect; a ValueError of that call reaches the outer handler,
\* which calls disconnect again and lets the second ValueError out.
HandlerDisconnects(c) ==
    /\ handler[c] = "receiving"
    /\ closed[c]
    /\ LET st0 == [list |-> active_connections, log |-> disconnects, raised |-> FALSE]
           st1 == disconnect(st0, c)
           st2 == IF st1.raised THEN disconnect(st1, c) ELSE st1
       IN /\ active_connections' = st2.list
          /\ disconnects' = st2.log
          /\ handler' = [handler EXCEPT ![c] = IF st2.raised THEN "raised" ELSE "returned"]
    /\ UNCHANGED <<closed, bcast>>
    /\ UNCHANGED <<ctlVars, defconVars, scoreVars, ledgerVars, marketVars>>

\* Lines 117-118 and 51-54: the streaming task broadcasts when the list is
\* not empty; broadcast awaits the send to the first connection.
BroadcastStarts ==
    /\ bcast.pc = "idle"
    /\ bcast.runs < MaxBroadcasts
    /\ active_connections # <<>>
    /\ bcast' = [pc |-> "sending", idx |-> 1, conn |-> active_connections[1],
                 disconnected |-> <<>>, runs |-> bcast.runs + 1]
    /\ UNCHANGED <<active_connections, handler, closed, disconnects>>
    /\ UNCHANGED <<ctlVars, defconVars, scoreVars, ledgerVars, marketVars>>

\* Lines 53-63 from the end of one send: the iterator moves on over the list
\* as it is now; when it is exhausted the connections whose send raised are
\* disconnected without another await.
BroadcastResumes(d) ==
    IF bcast.idx + 1 <= Len(active_connections)
    THEN /\ bcast' = [bcast EXCEPT !.idx = @ + 1,
                                   !.conn = active_connections[bcast.idx + 1],
                                   !.disconnected = d]
         /\ UNCHANGED <<active_connections, disconnects>>
    ELSE LET st == RemoveDisconnected([list |-> active_connections, log |-> disconnects,
                                       raised |-> FALSE], d)
         IN /\ active_connections' = st.list
            /\ disconnects' = st.log
            /\ bcast' = [NoBroadcast EXCEPT !.runs = bcast.runs]

\* The awaited send_json returns.
SendReturns ==
    /\ bcast.pc = "sending"
    /\ BroadcastResumes(bcast.disconnected)
    /\ UNCHANGED <<handler, closed>>
    /\ UNCHANGED <<ctlVars, defconVars, scoreVars, ledgerVars, marketVars>>

\* The awaited send_json raises: the peer has gone away.
SendRaises ==
    /\ bcast.pc = "sending"
    /\ closed[bcast.conn]
    /\ BroadcastResumes(Append(bcast.disconnected, bcast.conn))
    /\ UNCHANGED <<handler, closed>>
    /\ UNCHANGED <<ctlVars, defconVars, scoreVars, ledgerVars, marketVars>>

\* A direct call market_intel.add_signal(signal); the serial number of the
\* call stands for the signal's creation time (SpecSignals).
DirectSignal(k) ==
    [token_symbol |-> "QX", timestamp |-> k, signal_type |-> "WHALE_DUMP_RISK",
     risk_score |-> 85, risk_level |-> "HIGH"]

AddSignal ==
    /\ nburst < MaxSignals
    /\ nburst' = nburst + 1
    /\ token_signals' = add_signal(token_signals, DirectSignal(nburst + 1))
    /\ reply' = NoReply
    /\ UNCHANGED <<cfg, socketVars, now, nticks, nrich, pc, cur, pending, result, pre,
                   defconVars, scoreVars, ledgerVars, token_stats, token_risk_history>>

\* GET /api/signals?limit=...: any integer is accepted, 20 is the default.
Limits == {-1, 0, 1, 20, 250}

GetRecentSignals ==
    /\ \E limit \in Limits :
          reply' = [kind |-> "signals", limit |-> limit,
                    value |-> get_recent_signals(token_signals, limit)]
    /\ UNCHANGED <<cfg, socketVars, now, nticks, nburst, nrich, pc, cur, pending, result, pre,
                   defconVars, scoreVars, ledgerVars, marketVars>>

\* The transactions recorded directly on the ledger (SpecLedger): every
\* ordered pair of wallets, self-transfers included, and two large amounts.
LedgerInputs ==
    { Tx(x, y, 1000, "transfer", NoToken) : x \in Wallets, y \in Wallets }
        \cup { Tx("B", "C", 150000, "transfer", NoToken),
               Tx("C", "A", 150000, "transfer", NoToken) }

\* A direct call _update_wallet_graph(tx), as analyze_transaction makes at
\* line 286.
UpdateWalletGraph ==
    /\ nrich < MaxLedgerTx
    /\ nrich' = nrich + 1
    /\ \E tx \in LedgerInputs :
          /\ cur' = tx
          /\ wallet_graph' = UpdateGraph(wallet_graph, tx, nrich + 1)
          /\ wallet_graph_adjacency' = UpdateAdjacency(wallet_graph_adjacency, tx)
          /\ transaction_history' = UpdateTransactionHistory(transaction_history, tx)
    /\ reply' = NoReply
    /\ UNCHANGED <<cfg, socketVars, now, nticks, nburst, pc, pending, result, pre,
                   defconVars, scoreVars, marketVars,
                   recent_high_risk_events, historical_data, predictor_wallet_history>>

\* _get_wallet_insights(wallet_id) for a wallet of the ledger or not.
GetWalletInsights ==
    /\ \E w \in Wallets :
          reply' = [kind |-> "insights", wallet |-> w,
                    value |-> get_wallet_insights(wallet_graph, w)]
    /\ UNCHANGED <<cfg, socketVars, now, nticks, nburst, nrich, pc, cur, pending, result, pre,
                   defconVars, scoreVars, ledgerVars, marketVars>>

\* GET /api/wallet-graph?max_nodes=...: 50 is the default.
MaxNodesInputs == {1, 2, 50}

\* A graph query that also puts the controller back to normal operations.
GetWalletGraphResetting ==
    /\ \E n \in MaxNodesInputs :
          reply' = [kind |-> "graph", max_nodes |-> n,
                    value |-> get_wallet_graph(wallet_graph, wallet_graph_adjacency, n)]
    /\ current_defcon_level' = 5
    /\ adaptive_alert_threshold' = 80
    /\ UNCHANGED <<cfg, socketVars, now, nticks, nburst, nrich, pc, cur, pending, result, pre,
                   defcon_history, defcon_status, scoreVars, ledgerVars, marketVars>>

GetWalletGraph ==
    /\ \E n \in MaxNodesInputs :
          reply' = [kind |-> "graph", max_nodes |-> n,
                    value |-> get_wallet_graph(wallet_graph, wallet_graph_adjacency, n)]
    /\ UNCHANGED <<cfg, socketVars, now, nticks, nburst, nrich, pc, cur, pending, result, pre,
                   defconVars, scoreVars, ledgerVars, marketVars>>

\* The k-th point inserted (SpecSeries): three of four go to wallet A, and
\* the score alternates between 0 and 100 in blocks of BlockLen inserts, so
\* that the series rise, fall and stay flat; every OddPoint-th insert scores
\* 50, which moves a mean of 10 points by exactly 5.  The serial number of
\* the insert stands for its time.
SeriesWallet(k) == IF k % 4 = 0 THEN "B" ELSE "A"
SeriesScore(k) ==
    IF k % OddPoint = 0 THEN 50
    ELSE IF (k \div BlockLen) % 2 = 0 THEN 0 ELSE 100

\* Lines 276-278: analyze_transaction inserts the assessed score into the
\* global series and into the series of the source wallet.
AddPoint ==
    /\ nburst < MaxPoints
    /\ nburst' = nburst + 1
    /\ now' = nburst + 1
    /\ historical_data' = add_data_point(historical_data, nburst + 1, SeriesScore(nburst + 1))
    /\ predictor_wallet_history' =
          add_wallet_data_point(predictor_wallet_history, SeriesWallet(nburst + 1),
                                nburst + 1, SeriesScore(nburst + 1))
    /\ reply' = NoReply
    /\ UNCHANGED <<cfg, socketVars, nticks, nrich, pc, cur, pending, result, pre,
                   defconVars, scoreVars, marketVars, recent_high_risk_events,
                   wallet_graph, wallet_graph_adjacency, transaction_history>>

\* GET /api/predict?wallet_id=...: predictor.forecast(wallet_id).
Forecast ==
    /\ \E w \in Wallets :
          reply' = [kind |-> "forecast", wallet |-> w,
                    value |-> forecast(predictor_wallet_history, w, now)]
    /\ UNCHANGED <<cfg, socketVars, now, nticks, nburst, nrich, pc, cur, pending, result, pre,
                   defconVars, scoreVars, ledgerVars, marketVars>>

\* The stream hands over one more attack (SpecLog).
SubmitLogAttack ==
    /\ nburst < MaxLogAttacks
    /\ nburst' = nburst + 1
    /\ nrich' = nrich
    /\ Submit(AttackTx, nburst + nrich + 1)

\* A quiet period: more than the trailing window passes with no call (SpecLog).
Wait ==
    /\ pc = "idle"
    /\ nticks < MaxWaits
    /\ nticks' = nticks + 1
    /\ now' = now + WindowSeconds + 1
    /\ UNCHANGED <<cfg, socketVars, reply, nburst, nrich, pc, cur, pending, result, pre,
                   defconVars, scoreVars, ledgerVars, marketVars>>

\* The traffic of SpecFrame: a self-transfer on a token, assessed HIGH by the
\* scorer, and a small transfer.
FrameInputs == {ScenarioTx, Tx("A", "B", 1000, "transfer", NoToken)}

SubmitFrame ==
    /\ nrich < MaxFrameTx
    /\ nrich' = nrich + 1
    /\ nburst' = nburst
    /\ \E tx \in FrameInputs : Submit(tx, nburst + nrich + 1)

(* ---------------------------- specifications ---------------------------- *)
\* Spec: any traffic on a freshly built pipeline, under every configuration
\* and every provider answer.
Next ==
    \/ SubmitAny
    \/ BrainReply
    \/ BrainFail
    \/ ExplainReturns
    \/ AnalystReply
    \/ AnalystFail
    \/ GetDefconStatus

Spec == Init /\ [][Next]_vars

\* SpecBurst: a burst of attacks spread over time, with status queries.
\* While a burst lasts a configured provider answers each attack BurstReply.
NextBurst ==
    \/ SubmitAttack
    \/ BrainReply
    \/ ExplainReturns
    \/ AnalystReply
    \/ GetDefconStatus
    \/ Tick

SpecBurst == Init /\ [][NextBurst]_vars

\* SpecAlert: a burst of attacks, then other traffic under every provider
\* answer.
NextAlert ==
    \/ SubmitAttack
    \/ SubmitAfterBurst
    \/ BrainReply
    \/ BrainFail
    \/ ExplainReturns
    \/ AnalystReply
    \/ AnalystFail

SpecAlert == Init /\ [][NextAlert]_vars

\* SpecScorer: the scorer called directly.
NextScorer ==
    \/ ScoreBurst
    \/ ScoreOne

InitScorer == InitWith({Config(FALSE, TRUE, FALSE)})

SpecScorer == InitScorer /\ [][NextScorer]_vars

\* SpecActivity: the scorer called directly for two wallets, with idle periods.
NextActivity ==
    \/ ScoreSame
    \/ ScoreOther
    \/ Idle

InitActivity == InitWith({Config(FALSE, TRUE, FALSE)})

SpecActivity == InitActivity /\ [][NextActivity]_vars

\* SpecSockets: the websocket handlers and the streaming task's broadcasts.
NextSockets ==
    \/ \E c \in Clients : Connect(c)
    \/ \E c \in Clients : PeerCloses(c)
    \/ \E c \in Clients : HandlerDisconnects(c)
    \/ BroadcastStarts
    \/ SendReturns
    \/ SendRaises

InitSockets == InitWith({Config(FALSE, TRUE, FALSE)})

SpecSockets == InitSockets /\ [][NextSockets]_vars

\* SpecLedger: transactions recorded on the wallet ledger, and its queries.
NextLedger ==
    \/ UpdateWalletGraph
    \/ GetWalletInsights
    \/ GetWalletGraph

InitLedger == InitWith({Config(FALSE, TRUE, FALSE)})

SpecLedger == InitLedger /\ [][NextLedger]_vars

\* SpecSeries: the predictor's series filled past their capacities, and
\* forecasts asked for every wallet.
NextSeries ==
    \/ AddPoint
    \/ Forecast

InitSeries == InitWith({Config(FALSE, TRUE, FALSE)})

SpecSeries == InitSeries /\ [][NextSeries]_vars

\* SpecLog: attacks separated by quiet periods, with status queries, on the
\* rule-based pipeline: the level goes down and comes back again and again.
NextLog ==
    \/ SubmitLogAttack
    \/ Wait
    \/ GetDefconStatus

InitLog == InitWith({Config(FALSE, TRUE, FALSE)})

SpecLog == InitLog /\ [][NextLog]_vars

\* SpecFrame: transactions on both paths of the pipeline together with every
\* read-only operation and the status query.
NextFrame ==
    \/ SubmitFrame
    \/ BrainReply
    \/ BrainFail
    \/ ExplainReturns
    \/ GetDefconStatus
    \/ GetRecentSignals
    \/ GetWalletGraph
    \/ GetWalletInsights
    \/ Forecast

InitFrame == InitWith({Config(FALSE, TRUE, FALSE), Config(TRUE, TRUE, TRUE)})

SpecFrame == InitFrame /\ [][NextFrame]_vars

\* SpecSignals: the signal history filled past its capacity and queried.
NextSignals ==
    \/ AddSignal
    \/ GetRecentSignals

InitSignals == InitWith({Config(FALSE, TRUE, FALSE)})

SpecSignals == InitSignals /\ [][NextSignals]_vars

(* ------------------------------- the claims ----------------------------- *)
\* The level table the specification calls canonical (section 4.3).
CanonicalLevel(score) ==
    IF score >= 90 THEN "CRITICAL"
    ELSE IF score >= 70 THEN "HIGH"
    ELSE IF score >= 40 THEN "MEDIUM" ELSE "LOW"

\* The breakpoint table of the sensitivity controller as the claims state it.
BreakpointLevel(n) ==
    IF n >= 10 THEN 1
    ELSE IF n >= 5 THEN 2
    ELSE IF n >= 3 THEN 3
    ELSE IF n >= 1 THEN 4 ELSE 5

InRange(score) == 0 <= score /\ score <= 100

WellFormed(tx) == tx.source_id # NoId /\ tx.dest_id # NoId /\ tx.amount >= 0

\* The high-severity timestamps that lie in the trailing window now.
InWindow == AttackCount(recent_high_risk_events, now)

\* Some high-severity timestamp is recorded and all of them have aged out.
AllAgedOut == recent_high_risk_events # <<>> /\ InWindow = 0

\* A step that runs adjust_sensitivity: a status query or a transaction.
Recomputes == GetDefconStatus \/ SubmitAttack

\* C1: every risk_score that analyze_transaction computes and returns, on the
\* provider path or the rule path, escalated or not, and every risk_score
\* that compute_risk_score returns, lies in [0,100].
C1_ScoreInRange ==
    /\ InRange(result.risk_analysis.risk_score)
    /\ InRange(pending.ra.risk_score)
    /\ InRange(comprehensive_risk.risk_score)

\* C1 witness: in an alert state the scorer returned 50, the provider named
\* 120, the merged score was escalated by +10 and the result carries 100.
C1_Witness ==
    /\ result.status = "ok"
    /\ current_defcon_level <= 2
    /\ comprehensive_risk.called /\ comprehensive_risk.risk_score = 50
    /\ result.ai_analysis.risk_score = 100
    /\ result.risk_analysis.risk_level = "HIGH"
    /\ result.risk_analysis.risk_score = 100

\* C2: in every result analyze_transaction returns (here: for a well-formed
\* transaction), the risk_level is the level the canonical table assigns to
\* the returned risk_score.
C2_LevelByCanonicalTable ==
    (result.status = "ok" /\ WellFormed(result.tx)) =>
        result.risk_analysis.risk_level = CanonicalLevel(result.risk_analysis.risk_score)

\* C3: the level compute_risk_score returns is the one the table (CRITICAL
\* from 90, HIGH from 70, MEDIUM from 40, LOW below) assigns to the score it
\* returns, also when the accumulated score exceeded 100 before clamping.
C3_ScorerLevelTable ==
    comprehensive_risk.called =>
        comprehensive_risk.risk_level = CanonicalLevel(comprehensive_risk.risk_score)

\* C3 witness: a call whose factors added up to more than 100.
C3_Witness ==
    /\ comprehensive_risk.called
    /\ comprehensive_risk.raw > 100
    /\ comprehensive_risk.risk_score = 100
    /\ comprehensive_risk.risk_level = "CRITICAL"

C5_ReturnsWithoutInput ==
    AllAgedOut => (current_defcon_level = 5 /\ adaptive_alert_threshold = 80)

\* C5 as amended: once every recorded high-severity timestamp is older than
\* the window, the next recomputation (a status query or the start of the
\* next transaction) sets the level to 5 and the threshold to 80.
C5_ReturnsOnRecompute ==
    [][(AllAgedOut /\ Recomputes) =>
          (current_defcon_level' = 5 /\ adaptive_alert_threshold' = 80)]_vars

\* C5 witness: the window has aged out and the last logged transition is a
\* return to level 5 from a more alert level.
C5_Witness ==
    /\ AllAgedOut
    /\ current_defcon_level = 5 /\ adaptive_alert_threshold = 80
    /\ defcon_history # <<>>
    /\ defcon_history[Len(defcon_history)].new_defcon = 5
    /\ defcon_history[Len(defcon_history)].previous_defcon < 5

\* C6: analyze_transaction never ends in an error for a well-formed
\* transaction, whatever level results (here: in a pipeline whose scorer
\* was constructed to the end, with or without a provider client).
C6_NeverEndsInError ==
    (WellFormed(result.tx) /\ cfg.analyst_init) => result.status # "error"

\* C7: when a configured provider failed on the call for a well-formed
\* transaction (the client handed back its fallback), the returned
\* assessment says ai_generated = false.
C7_FallbackSaysRuleBased ==
    (/\ result.status = "ok"
     /\ WellFormed(result.tx)
     /\ cfg.brain_client \/ cfg.analyst_client
     /\ ~result.ai_analysis.ai_generated)
        => ~result.risk_analysis.ai_generated

\* C9: a transaction with a negative amount or a missing id is not assessed:
\* it ends in an error and leaves the ledger, the history, the forecaster
\* series, the high-severity queue and the token stores as they were.
C9_InvalidRejectedUntouched ==
    (~WellFormed(result.tx) /\ result.status \in {"ok", "error", "rejected"})
        => (result.status # "ok" /\ Stores = pre)

\* C10: a well-formed transaction whose processing fails leaves no update in
\* the high-severity queue, the forecaster series, the ledger or the token
\* stores.
C10_AllOrNothing ==
    (result.status = "error" /\ WellFormed(result.tx)) => Stores = pre

\* C11: a step that changes the signal history belongs to a transaction that
\* ended with final level HIGH or CRITICAL, and the signal it stored carries
\* that level; no LOW or MEDIUM transaction adds a signal.
C11_SignalsOnlyFromHigh ==
    [][token_signals' # token_signals =>
          /\ result'.status = "ok"
          /\ result'.risk_analysis.risk_level \in HighLevels
          /\ token_signals'[1].risk_level = result'.risk_analysis.risk_level
          /\ \A i \in 1..Len(token_signals') : token_signals'[i].risk_level \in HighLevels]_vars

C11_Witness ==
    /\ token_signals # <<>>
    /\ result.status = "ok"
    /\ result.tx.token_symbol # NoToken
    /\ result.risk_analysis.risk_level \in {"LOW", "MEDIUM"}
    /\ Len(token_signals) = 1

\* The signals DirectSignal(1), ..., DirectSignal(n) were added in this order:
\* the newest `capacity` of them, newest first.
NewestFirst(n, capacity) == [k \in 1..Min(n, capacity) |-> DirectSignal(n - k + 1)]

\* C12 (the history): after any number of add_signal calls the history holds
\* at most 200 signals, the most recently added ones, newest first.
C12_HistoryKeepsNewest ==
    /\ Len(token_signals) <= max_signals
    /\ token_signals = NewestFirst(nburst, max_signals)

\* C12 (the query): get_recent_signals(limit) returns the head of the
\* history, newest first, and never more than `limit` signals.
C12_QueryWithin(limit, value) ==
    /\ Len(value) <= Max(limit, 0)
    /\ value = SubSeq(token_signals, 1, Len(value))
    /\ Len(value) = Min(Max(limit, 0), Len(token_signals))

\* C12: the signal history keeps the newest 200 signals, newest first, and
\* every get_recent_signals(limit) returns at most `limit` of them, newest
\* first.
C12_NewestWithinLimit ==
    [](C12_HistoryKeepsNewest) /\
    [][GetRecentSignals => C12_QueryWithin(reply'.limit, reply'.value)]_vars

\* The same for the limits that are not negative.
C12_NewestWithinNaturalLimit ==
    [](C12_HistoryKeepsNewest) /\
    [][(GetRecentSignals /\ reply'.limit >= 0) =>
           C12_QueryWithin(reply'.limit, reply'.value)]_vars

\* The scenario: ScenarioTx is the first transaction of a fresh pipeline and
\* has been processed on the rule path, where compute_risk_score runs.
ScenarioDone ==
    pc = "idle" /\ nrich = 1 /\ result.tx = ScenarioTx /\ comprehensive_risk.called

C14_SelfTransferAtLeastSeventy ==
    (comprehensive_risk.called /\ cur.source_id = cur.dest_id) =>
        /\ comprehensive_risk.risk_score >= 70
        /\ comprehensive_risk.raw >= 70

C14_Witness ==
    /\ comprehensive_risk.called
    /\ cur.source_id = cur.dest_id
    /\ cur.amount < 0
    /\ nburst >= 1
    /\ comprehensive_risk.risk_score = 70

\* The recorded transactions between x and y, in either direction.
Between(h, x, y) ==
    Len(SelectSeq(h, LAMBDA t : \/ (t.source_id = x /\ t.dest_id = y)
                                \/ (t.source_id = y /\ t.dest_id = x)))

\* C15: for any two distinct wallets the counterpart count each holds for the
\* other is the same and is the number of recorded transactions between them
\* in either direction; the insights of a wallet count each of its
\* counterparts once.
C15_CounterpartsSymmetric ==
    /\ \A x, y \in Wallets :
          x # y =>
             /\ wallet_graph[x].counterparts[y] = wallet_graph[y].counterparts[x]
             /\ wallet_graph[x].counterparts[y] = Between(transaction_history, x, y)
    /\ reply.kind = "insights" =>
          reply.value.unique_counterparts =
             Cardinality({y \in Wallets : Between(transaction_history, reply.wallet, y) > 0})

C15_Witness ==
    /\ Len(transaction_history) = 2
    /\ transaction_history[1].source_id = "A" /\ transaction_history[1].dest_id = "B"
    /\ transaction_history[2].source_id = "B" /\ transaction_history[2].dest_id = "A"
    /\ reply.kind = "insights" /\ reply.wallet = "A"
    /\ reply.value.unique_counterparts = 1
    /\ wallet_graph["A"].counterparts["B"] = 2
    /\ wallet_graph["B"].counterparts["A"] = 2

\* The wallets and the edges of the last graph returned.
GraphIds == {reply.value.nodes[i].id : i \in 1..Len(reply.value.nodes)}
EdgesOf(x, y) == {e \in reply.value.edges : {e.source, e.target} = {x, y}}

\* C16: in a returned graph every pair of returned wallets that have
\* transacted, in whichever direction, is exactly one edge, a pair that has
\* not transacted is none, and each edge joins two returned wallets.
C16_OneEdgePerPair ==
    reply.kind = "graph" =>
        /\ \A x, y \in GraphIds :
              Cardinality(EdgesOf(x, y)) =
                 IF Between(transaction_history, x, y) > 0 THEN 1 ELSE 0
        /\ \A e \in reply.value.edges : e.source \in GraphIds /\ e.target \in GraphIds

\* Both directions recorded between A and B, a third wallet cut off by
\* max_nodes although it has transacted with a returned one.
C16_Witness ==
    /\ reply.kind = "graph"
    /\ GraphIds = {"A", "B"}
    /\ Between(transaction_history, "B", "C") > 0
    /\ \E i, j \in 1..Len(transaction_history) :
          /\ transaction_history[i].source_id = "A" /\ transaction_history[i].dest_id = "B"
          /\ transaction_history[j].source_id = "B" /\ transaction_history[j].dest_id = "A"
    /\ Cardinality(reply.value.edges) = 1

\* C17: the weight of every returned edge is the number of transactions
\* recorded between its two wallets, in either direction.
C17_WeightCountsTransactions ==
    reply.kind = "graph" =>
        \A e \in reply.value.edges :
            e.weight = Between(transaction_history, e.source, e.target)

\* C18: once a transaction from wallet W has been assessed with score s, the
\* risk_score stored on W's ledger node is at least s, and the stored score
\* of a wallet never decreases.
C18_StoredScoreIsHighWater ==
    [](\A w \in Wallets :
          (result.status = "ok" /\ WellFormed(result.tx) /\ result.tx.source_id = w)
             => wallet_graph[w].risk_score >= result.risk_analysis.risk_score)
    /\ [][\A w \in Wallets : wallet_graph'[w].risk_score >= wallet_graph[w].risk_score]_vars

\* `new` is `old` after one insert into a series of the given capacity: the
\* points of `old` in their order, without the oldest one when `old` was
\* full, followed by the inserted point.
InsertedInto(old, new, capacity) ==
    /\ Len(new) <= capacity
    /\ new # <<>>
    /\ new[Len(new)].timestamp = nburst'
    /\ SubSeq(new, 1, Len(new) - 1) = IF Len(old) < capacity THEN old ELSE Tail(old)

\* C19: every insert leaves at most 200 points in each per-wallet series and
\* at most 1000 in the global series; a full series loses its oldest point
\* and the other points keep their order.
C19_SeriesBounded ==
    [](/\ Len(historical_data) <= HistoricalDataMax
       /\ \A w \in Wallets : Len(predictor_wallet_history[w]) <= max_history_length)
    /\ [][AddPoint =>
            /\ InsertedInto(historical_data, historical_data', HistoricalDataMax)
            /\ \A w \in Wallets :
                  IF w = SeriesWallet(nburst')
                  THEN InsertedInto(predictor_wallet_history[w],
                                    predictor_wallet_history'[w], max_history_length)
                  ELSE predictor_wallet_history'[w] = predictor_wallet_history[w]]_vars

\* Both kinds of series are full and have evicted points.
C19_Witness ==
    /\ Len(historical_data) = HistoricalDataMax
    /\ historical_data[1].timestamp > 1
    /\ Len(predictor_wallet_history["A"]) = max_history_length
    /\ Len(predictor_wallet_history["B"]) = max_history_length
    /\ predictor_wallet_history["B"][1].timestamp > 4

\* C20: a forecast for a wallet with fewer than 2 points (or none) is the
\* insufficient-data result, with no forecast points; a forecast for a wallet
\* with 2 or more points has forecast points, each within [0, 100].
C20_ForecastGuarded ==
    reply.kind = "forecast" =>
        IF Len(predictor_wallet_history[reply.wallet]) < 2
        THEN /\ "error" \in DOMAIN reply.value
             /\ reply.value.error = "Insufficient data"
             /\ reply.value.forecast = <<>>
        ELSE /\ "error" \notin DOMAIN reply.value
             /\ Len(reply.value.forecast) = ForecastPoints
             /\ \A i \in 1..Len(reply.value.forecast) :
                   /\ reply.value.forecast[i].predicted_risk >= 0
                   /\ reply.value.forecast[i].predicted_risk <= 100 * RiskUnit

\* A rising series whose extrapolation would pass 100.
C20_Witness ==
    /\ reply.kind = "forecast"
    /\ Len(predictor_wallet_history[reply.wallet]) >= 2
    /\ reply.value.trend = "UP"
    /\ reply.value.forecast[1].predicted_risk = 100 * RiskUnit

\* C21: the log of level transitions never holds more entries than a fixed
\* maximum (taken here as the number of entries the status endpoint reports).
C21_LogCapped == Len(defcon_history) <= DefconHistoryShown

PairedThreshold(level) ==
    CASE level = 1 -> 50 [] level = 2 -> 60 [] level = 3 -> 70
      [] level = 4 -> 75 [] level = 5 -> 80

C23_OneEntryPerChange ==
    [][Recomputes =>
         IF current_defcon_level' # current_defcon_level
         THEN /\ Len(defcon_history') = Len(defcon_history) + 1
              /\ SubSeq(defcon_history', 1, Len(defcon_history)) = defcon_history
              /\ defcon_history'[Len(defcon_history')].previous_defcon = current_defcon_level
              /\ defcon_history'[Len(defcon_history')].new_defcon = current_defcon_level'
              /\ defcon_history'[Len(defcon_history')].attack_count_1min = InWindow
         ELSE defcon_history' = defcon_history]_vars

\* One change logged (5 to 4 at count 1), then a call at count 2 that left the
\* level at 4 and logged nothing.
C23_Witness ==
    /\ Len(defcon_history) = 1
    /\ defcon_history[1].previous_defcon = 5
    /\ defcon_history[1].new_defcon = 4
    /\ defcon_history[1].attack_count_1min = 1
    /\ defcon_status.attacks_last_minute = 2
    /\ current_defcon_level = 4

\* The steps that call adjust_sensitivity: the status query and a submitted
\* transaction that reaches analyze_transaction.
CallsAdjust == GetDefconStatus \/ (SubmitFrame /\ cur'.source_id # NoId /\ cur'.dest_id # NoId)

\* C24: a step that leaves the level or the threshold changed is a call of
\* adjust_sensitivity, and the new values are the table values of the
\* controller's own timestamp history; scoring, ledger updates, signal
\* emission, provider returns and the graph, insight, forecast and signal
\* queries leave both as they were.
C24_OnlyRecomputationChanges ==
    [][(\/ current_defcon_level' # current_defcon_level
        \/ adaptive_alert_threshold' # adaptive_alert_threshold)
       => /\ CallsAdjust
          /\ current_defcon_level' = BreakpointLevel(InWindow)
          /\ adaptive_alert_threshold' = PairedThreshold(BreakpointLevel(InWindow))]_vars

\* The level has moved while signals were emitted and a query was answered.
C24_Witness ==
    /\ current_defcon_level = 4
    /\ adaptive_alert_threshold = 75
    /\ token_signals # <<>>
    /\ reply.kind = "graph"
    /\ Len(reply.value.nodes) >= 1

\* The assessment before sensitivity escalation: the provider's on the
\* provider path, the merged one on the rule path.
BaseScore ==
    IF cfg.brain_client THEN result.ai_analysis.risk_score
    ELSE Max(comprehensive_risk.risk_score, result.ai_analysis.risk_score)
BaseLevel ==
    IF cfg.brain_client THEN result.ai_analysis.risk_level
    ELSE comprehensive_risk.risk_level
Assessed ==
    /\ pc = "idle"
    /\ result.status \in {"ok", "error"}
    /\ (cfg.brain_client \/ comprehensive_risk.called)
OneStepUp(level) == IF level = "MEDIUM" THEN "HIGH" ELSE "CRITICAL"

\* The result is the base assessment escalated when `over` holds and the base
\* level is MEDIUM or HIGH, and the base assessment itself otherwise.
EscalatedWhen(over) ==
    IF over /\ current_defcon_level <= 2 /\ BaseLevel \in {"MEDIUM", "HIGH"}
    THEN /\ result.risk_analysis.risk_level = OneStepUp(BaseLevel)
         /\ result.risk_analysis.risk_score >= Min(100, BaseScore + 5)
         /\ result.risk_analysis.risk_score <= Min(100, BaseScore + 10)
    ELSE /\ result.risk_analysis.risk_level = BaseLevel
         /\ result.risk_analysis.risk_score = BaseScore

\* C25: an assessment is escalated only at controller level 1 or 2 and only
\* when its score exceeds the effective threshold: MEDIUM then becomes HIGH
\* and HIGH becomes CRITICAL, the score rising by 5 to 10 up to 100; every
\* other assessment keeps its level and score.
C25_EscalatesOnlyAboveThreshold ==
    Assessed => EscalatedWhen(BaseScore > adaptive_alert_threshold)

\* The same with a score equal to the threshold escalated as well.
C25_EscalatesFromThreshold ==
    Assessed => EscalatedWhen(BaseScore >= adaptive_alert_threshold)

\* The series the last forecast was asked for, and the sums of its most
\* recent 10 scores and of the 10 scores before them.
AskedSeries == predictor_wallet_history[reply.wallet]
RECURSIVE ScoreSum(_, _, _)
ScoreSum(pts, from, to) ==
    IF from > to THEN 0 ELSE pts[from].risk_score + ScoreSum(pts, from + 1, to)
RecentSum == ScoreSum(AskedSeries, Len(AskedSeries) - 9, Len(AskedSeries))
OlderSum == ScoreSum(AskedSeries, Len(AskedSeries) - 19, Len(AskedSeries) - 10)
Identical(pts) == \A i, j \in 1..Len(pts) : pts[i].risk_score = pts[j].risk_score

\* C26: for a series of at least 20 points the forecast's trend is UP exactly
\* when the mean of the last 10 scores is more than 5 above the mean of the 10
\* before them, DOWN exactly when it is more than 5 below, STABLE otherwise;
\* a series of identical values, of any length, gives STABLE.
C26_TrendByMeans ==
    (reply.kind = "forecast" /\ Len(AskedSeries) >= 2) =>
        /\ Len(AskedSeries) >= 20 =>
              reply.value.trend =
                 IF RecentSum > OlderSum + 50 THEN "UP"
                 ELSE IF RecentSum < OlderSum - 50 THEN "DOWN" ELSE "STABLE"
        /\ Identical(AskedSeries) => reply.value.trend = "STABLE"

\* The recent mean is exactly 5 above the older one: STABLE.
C26_Witness ==
    /\ reply.kind = "forecast"
    /\ Len(AskedSeries) >= 20
    /\ RecentSum = OlderSum + 50
    /\ reply.value.trend = "STABLE"

\* The timestamps of the last scored transaction's source that lie within the
\* trailing activity window, the call's own included.
LastScored == wallet_activity[cur.source_id][Len(wallet_activity[cur.source_id])]
ScoredInWindow ==
    Cardinality({i \in 1..Len(wallet_activity[cur.source_id]) :
                    wallet_activity[cur.source_id][i] >= LastScored - 600})
ActivityAdded ==
    comprehensive_risk.raw - (AmountImpact(cur.amount) + TypeImpact(cur.type)
                                 + SelfTransferImpact(cur))

\* C27: the activity factor of a scorer call is 40 when more than 50
\* transactions of the same source were scored within the trailing 10
\* minutes, 20 when more than 20 and at most 50 were, and 0 otherwise;
\* older transactions and other sources' transactions do not count.
C27_ActivityByWindowCount ==
    comprehensive_risk.called =>
        ActivityAdded = IF ScoredInWindow > 50 THEN 40
                        ELSE IF ScoredInWindow > 20 /\ ScoredInWindow <= 50 THEN 20
                        ELSE 0

\* More than 50 transactions of the wallet on record, 21 of them within the
\* window.
C27_Witness ==
    /\ comprehensive_risk.called
    /\ Len(wallet_activity[cur.source_id]) > 50
    /\ ScoredInWindow = 21
    /\ ActivityAdded = 20

\* C28: the transition log is a chain: it starts from level 5, each entry
\* starts from the level the entry before it ended on, every entry changes
\* the level, and the last entry ends on the controller's current level.
C28_LogIsChain ==
    /\ defcon_history # <<>> => defcon_history[1].previous_defcon = 5
    /\ \A i \in 2..Len(defcon_history) :
          defcon_history[i].previous_defcon = defcon_history[i - 1].new_defcon
    /\ \A i \in 1..Len(defcon_history) :
          defcon_history[i].previous_defcon # defcon_history[i].new_defcon
    /\ defcon_history # <<>> =>
          defcon_history[Len(defcon_history)].new_defcon = current_defcon_level

\* A log that went up, back to normal and up again.
C28_Witness ==
    /\ Len(defcon_history) >= 4
    /\ \E i \in 2..(Len(defcon_history) - 1) :
          /\ defcon_history[i].new_defcon = 5
          /\ defcon_history[i].previous_defcon < 4
    /\ current_defcon_level < 5

\* The recorded transactions a wallet takes part in, each one once, and the
\* self-transfers among them.
Involving(w) == WalletTxs(transaction_history, w)
SelfTransfersOf(w) ==
    SelectSeq(transaction_history, LAMBDA t : t.source_id = w /\ t.dest_id = w)

\* C29: the transaction_count of a wallet's insights is the number of
\* recorded transactions with the wallet as source or destination, a
\* self-transfer counted once, and the wallet's counterpart count for
\* itself is the number of its self-transfers.
C29_CountsEachTransactionOnce ==
    (reply.kind = "insights" /\ reply.value.exists) =>
        /\ reply.value.transaction_count = Len(Involving(reply.wallet))
        /\ wallet_graph[reply.wallet].counterparts[reply.wallet]
              = Len(SelfTransfersOf(reply.wallet))

\* C30: disconnect is called only for a connection that is in
\* active_connections, so no call finds its connection missing and no client
\* is removed twice.
C30_DisconnectOnlyForMembers ==
    \A c \in Clients : disconnects[c].missing = 0 /\ disconnects[c].removed <= 1

====
